---- MODULE Spec2Model ----
(***************************************************************************)
(* CronManager (cron-manager.ts) on top of the croner scheduler.           *)
(*                                                                         *)
(* The manager keeps three maps keyed by job name: jobs (the live Cron     *)
(* objects), configs (the definitions) and executions (the histories).     *)
(* A Cron object is modelled by the fields of croner's _states that the    *)
(* manager reads or that decide whether a handler starts: paused,          *)
(* blocking, currentRun, previousRun, and the time its pending timeout is  *)
(* due.  Handler invocations are asynchronous: one step starts an          *)
(* invocation, a later step completes it and writes its record.            *)
(***************************************************************************)
EXTENDS Integers, Sequences, FiniteSets, TLC

\* ------------------------------------------------------------------ bounds
MaxTime == 1          \* the clock runs 0..MaxTime
MaxCap == 2           \* maxExecutionLogs is drawn from 0..MaxCap
MaxRuns == 2          \* handler invocations started in one behaviour
MaxList == 2          \* longest array registerAll is called with
LogCap == 12          \* largest maxExecutionLogs of a manager with a long history
MaxLimit == 1         \* RATE_LIMIT_MAX is drawn from 0..MaxLimit
MaxWindow == 1        \* RATE_LIMIT_WINDOW of the servers started
MaxWebTime == 2       \* the clock of the HTTP layer runs 0..MaxWebTime
MaxEvents == 2        \* requests are made while the audit log holds fewer events
MaxQuery == 2         \* the limit parameter of /api/audit is one digit up to this

\* the names control operations are called with, and those ever registered
Names == {"a", "b"}
RegNames == {"a"}
Descriptions == {"d1", "d2"}
GoodPattern == "*/1 * * * * *"
BadPattern == "bad"
Patterns == {GoodPattern, BadPattern}
None == "null"
NoTime == -1          \* a Date that is null
Timezones == {None, "Europe/Oslo"}    \* JobConfig.timezone, absent or given
SnapshotLimit == 10   \* executions.slice(0, 10)
AuditMaxEvents == 1000                \* AuditLogger.maxEvents
DefaultRateLimitMax == 100            \* RATE_LIMIT_MAX when the variable is unset
DefaultRateLimitWindow == 60          \* RATE_LIMIT_WINDOW when unset, in seconds
DefaultAuditLimit == 100               \* the limit of /api/audit when the parameter is unset

VARIABLES
    maxExecutionLogs,  \* CronManager.maxExecutionLogs
    jobs,              \* Map<string, Cron>: name -> Cron state
    configs,           \* Map<string, JobConfig>
    executions,        \* Map<string, JobExecution[]>, most recent first
    inflight,          \* per name, the handler invocations that have started and not completed
    now,               \* the clock (new Date())
    nrec,              \* number of recordExecution calls so far (numbers the records)
    last,              \* the last operation applied and what it returned
    env,               \* process.env as dashboard.tsx reads it at start
    requests,          \* RateLimiter.requests: ip -> RateLimitEntry
    events,            \* AuditLogger.events, oldest first
    response           \* status of the last HTTP response

vars == <<maxExecutionLogs, jobs, configs, executions, inflight, now, nrec, last,
          env, requests, events, response>>

\* the state of the HTTP layer
web == <<env, requests, events, response>>

\* ------------------------------------------------------------------ helpers
\* a boolean as an operation's result
Bool(b) == IF b THEN "true" ELSE "false"

\* variant: no slice, the whole array is returned
TakeAll(s, k) == s

Take(s, k) == IF Len(s) <= k THEN s ELSE SubSeq(s, 1, k)

RemoveAt(s, i) == SubSeq(s, 1, i - 1) \o SubSeq(s, i + 1, Len(s))

\* m.set(k, v)
MapSet(m, k, v) == [x \in (DOMAIN m) \cup {k} |-> IF x = k THEN v ELSE m[x]]

\* m.delete(k)
MapDelete(m, k) == [x \in (DOMAIN m) \ {k} |-> m[x]]

EmptyMap == [x \in {} |-> None]

RECURSIVE SumLen(_, _)
SumLen(f, S) == IF S = {} THEN 0
                ELSE LET x == CHOOSE y \in S : TRUE
                     IN Len(f[x]) + SumLen(f, S \ {x})

\* invocations started so far: those recorded plus those still in flight
Started == nrec + SumLen(inflight, Names)

\* ------------------------------------------------------------------ JobConfig
\* JobConfig: name, description, pattern, enabled, options.protect and
\* options.catch (FALSE when the options switch croner's catch off)
AllConfigs == [name : Names, description : Descriptions, pattern : Patterns,
               timezone : Timezones,
               enabled : BOOLEAN, protect : BOOLEAN, catch : BOOLEAN]

\* the option sets definitions come with: the defaults (protect on, the
\* manager's catch callback), or options {protect: false, catch: false}
DefaultOptions(c) == c.protect /\ c.catch
PlainOptions(c) == ~c.protect /\ ~c.catch

\* the definitions register is called with: enabled or not, well-formed or
\* not, with the default options or with the plain ones
Configs == {c \in AllConfigs :
              /\ c.name \in RegNames
              /\ DefaultOptions(c) \/ PlainOptions(c)
              /\ c.description = "d2" <=> ~c.protect
              /\ c.timezone = None <=> c.protect
              /\ ~c.protect => (c.enabled /\ c.pattern = GoodPattern)}

\* the definitions registerAll is called with, all with default options:
\* job a enabled, disabled or malformed, and a well-formed enabled job b
DuoConfigs == {c \in AllConfigs :
                 /\ DefaultOptions(c) /\ c.description = "d1"
                 /\ c.timezone = None
                 /\ c.enabled \/ c.pattern = GoodPattern
                 /\ c.name \in RegNames \/ (c.enabled /\ c.pattern = GoodPattern)}

\* the arrays registerAll is called with
ConfigLists == UNION {[1..k -> DuoConfigs] : k \in 1..MaxList}

\* croner's CronPattern constructor throws on a malformed pattern
PatternValid(p) == p = GoodPattern

\* croner nextRun(prev) for the every-tick pattern: the next instant after prev
NextRun(prev) == prev + 1

\* ------------------------------------------------------------------ croner
\* variant: the options spread comes before protect: true, which then wins
NewCronAlwaysProtects(config, t) ==
    [paused |-> FALSE, blocking |-> FALSE, currentRun |-> NoTime,
     previousRun |-> NoTime, timerAt |-> NextRun(t), protect |-> TRUE,
     catch |-> config.catch]

\* new Cron(pattern, options, fn): not paused, not blocking, no runs yet,
\* and schedule() arms the first timeout for the next fire time after now
NewCron(config, t) ==
    [paused |-> FALSE, blocking |-> FALSE, currentRun |-> NoTime,
     previousRun |-> NoTime, timerAt |-> NextRun(t), protect |-> config.protect,
     catch |-> config.catch]

\* Cron._trigger up to the handler's first await: blocking and currentRun are set
CronStart(job, t) == [job EXCEPT !.blocking = TRUE, !.currentRun = t]

\* Cron._trigger after the handler's promise settles
CronFinish(job, t) == [job EXCEPT !.blocking = FALSE, !.previousRun = t]

\* variant: the paused flag is not looked at when the timeout expires
ShouldFireWhilePaused(job) == ~(job.blocking /\ job.protect)

\* Cron._checkTrigger: does the due timeout start the handler?
ShouldFire(job) == ~job.paused /\ ~(job.blocking /\ job.protect)

\* Cron.schedule(): re-arm the timeout for the next fire time after now
CronSchedule(job, t) == [job EXCEPT !.timerAt = NextRun(t)]

\* Cron.pause()
CronPause(job) == [job EXCEPT !.paused = TRUE]

\* Cron.resume(): clears paused; the result is !kill, true for a job not stopped
CronResume(job) == [job EXCEPT !.paused = FALSE]

\* the result of Cron.resume(): !kill
CronResumeResult(job) == TRUE

\* ------------------------------------------------------------------ manager
\* the handler wrapper up to `await config.handler(self)`: startTime is
\* taken; the invocation was started by job.trigger() (manual) or by the
\* timeout, on a Cron the manager holds (live)
NewInvocation(t, manual) == [startTime |-> t, live |-> TRUE, manual |-> manual]

\* variant: a wrapper that rethrows what the handler threw
WrapperRethrows(success) == IF success THEN "resolved" ELSE "rejected"

\* the handler wrapper's promise: the try/catch around the handler call
\* records the failure and does not rethrow
WrapperOutcome(success) == "resolved"

\* variant: a wrapper that records in the catch branch only
WrapperRecordsOnFailure(success) == ~success

\* variant: a wrapper that records in the try branch only
WrapperRecordsOnSuccess(success) == success

\* does the wrapper call recordExecution? (in the try and in the catch branch)
WrapperRecords(success) == TRUE

\* the promise of Cron._trigger: with catch off a rejection of the wrapper
\* is passed on, with catch on it is swallowed
CronTriggerOutcome(catch, wrapperOutcome) ==
    IF wrapperOutcome = "rejected" /\ ~catch THEN "rejected" ELSE "resolved"

\* variant: the record is pushed at the end before the array is cut
RecordExecutionPush(execs, jobName, success, inv, t) ==
    LET old == IF jobName \in DOMAIN execs THEN execs[jobName] ELSE <<>>
        execution == [jobName |-> jobName, startTime |-> inv.startTime,
                      endTime |-> t, duration |-> t - inv.startTime,
                      success |-> success,
                      error |-> IF success THEN None ELSE "message",
                      seq |-> nrec + 1]
        pushed == old \o <<execution>>
    IN MapSet(execs, jobName,
              IF Len(pushed) > maxExecutionLogs
              THEN SubSeq(pushed, 1, maxExecutionLogs) ELSE pushed)

\* variant: the record of a successful run carries an error message too
RecordExecutionAlwaysError(execs, jobName, success, inv, t) ==
    LET old == IF jobName \in DOMAIN execs THEN execs[jobName] ELSE <<>>
        execution == [jobName |-> jobName, startTime |-> inv.startTime,
                      endTime |-> t, duration |-> t - inv.startTime,
                      success |-> success,
                      error |-> "message",
                      seq |-> nrec + 1]
        unshifted == <<execution>> \o old
    IN MapSet(execs, jobName,
              IF Len(unshifted) > maxExecutionLogs
              THEN SubSeq(unshifted, 1, maxExecutionLogs) ELSE unshifted)

\* the catch callback createJob gives croner: recordExecution(name, false,
\* message) with no times, so the start time is that of the call
RecordExecutionCaught(execs, jobName, t) ==
    LET old == IF jobName \in DOMAIN execs THEN execs[jobName] ELSE <<>>
        execution == [jobName |-> jobName, startTime |-> t,
                      endTime |-> NoTime, duration |-> NoTime,
                      success |-> FALSE,
                      error |-> "message",
                      seq |-> nrec + 2]
        unshifted == <<execution>> \o old
    IN MapSet(execs, jobName,
              IF Len(unshifted) > maxExecutionLogs
              THEN SubSeq(unshifted, 1, maxExecutionLogs) ELSE unshifted)

\* variant: the record is written without end time and duration
RecordExecutionPending(execs, jobName, success, inv, t) ==
    LET old == IF jobName \in DOMAIN execs THEN execs[jobName] ELSE <<>>
        execution == [jobName |-> jobName, startTime |-> inv.startTime,
                      endTime |-> NoTime, duration |-> NoTime,
                      success |-> success,
                      error |-> IF success THEN None ELSE "message",
                      seq |-> nrec + 1]
        unshifted == <<execution>> \o old
    IN MapSet(execs, jobName,
              IF Len(unshifted) > maxExecutionLogs
              THEN SubSeq(unshifted, 1, maxExecutionLogs) ELSE unshifted)

\* recordExecution: unshift the record, cut the array to maxExecutionLogs
RecordExecution(execs, jobName, success, inv, t) ==
    LET old == IF jobName \in DOMAIN execs THEN execs[jobName] ELSE <<>>
        execution == [jobName |-> jobName, startTime |-> inv.startTime,
                      endTime |-> t, duration |-> t - inv.startTime,
                      success |-> success,
                      error |-> IF success THEN None ELSE "message",
                      seq |-> nrec + 1]
        unshifted == <<execution>> \o old
    IN MapSet(execs, jobName,
              IF Len(unshifted) > maxExecutionLogs
              THEN SubSeq(unshifted, 1, maxExecutionLogs) ELSE unshifted)

\* variant: a job without a Cron is reported paused
GetJobStatusAbsentPaused(name) ==
    IF name \notin DOMAIN jobs THEN "paused"
    ELSE IF jobs[name].paused THEN "paused"
    ELSE IF jobs[name].blocking THEN "running"
    ELSE "idle"

\* getJobStatus: stopped without a Cron, else paused, running or idle
GetJobStatus(name) ==
    IF name \notin DOMAIN jobs THEN "stopped"
    ELSE IF jobs[name].paused THEN "paused"
    ELSE IF jobs[name].blocking THEN "running"
    ELSE "idle"

RECURSIVE SumDuration(_)
SumDuration(s) == IF s = <<>> THEN 0 ELSE Head(s).duration + SumDuration(Tail(s))

\* Math.round of total / n, for n > 0 and total >= 0
RoundDiv(total, n) == (2 * total + n) \div (2 * n)

\* what getJob returns for a name without a config (null)
NotFound == [notFound |-> TRUE]

\* getJob(name): null for a name without a config, else the snapshot
GetJob(name) ==
    IF name \notin DOMAIN configs THEN NotFound
    ELSE LET config == configs[name]
             hasJob == name \in DOMAIN jobs
             execs == IF name \in DOMAIN executions THEN executions[name] ELSE <<>>
             successfulRuns == Cardinality({i \in DOMAIN execs : execs[i].success})
             failedRuns == Cardinality({i \in DOMAIN execs : ~execs[i].success})
         IN [name |-> config.name,
             description |-> config.description,
             pattern |-> config.pattern,
             timezone |-> config.timezone,
             enabled |-> config.enabled,
             status |-> GetJobStatus(name),
             nextRun |-> IF hasJob THEN NextRun(now) ELSE NoTime,
             previousRun |-> IF hasJob THEN jobs[name].previousRun ELSE NoTime,
             currentRun |-> IF hasJob THEN jobs[name].currentRun ELSE NoTime,
             isBusy |-> hasJob /\ jobs[name].blocking,
             executions |-> Take(execs, SnapshotLimit),
             stats |-> [totalRuns |-> Len(execs),
                        successfulRuns |-> successfulRuns,
                        failedRuns |-> failedRuns,
                        averageDuration |-> IF Len(execs) > 0
                                            THEN RoundDiv(SumDuration(execs), Len(execs))
                                            ELSE 0]]

\* getAllJobs(): the snapshot of every name that has a config
GetAllJobs == [name \in DOMAIN configs |-> GetJob(name)]

\* flat(): the records of all histories
Matches(e, kind) ==
    \/ kind = "all"
    \/ kind = "success" /\ e.success
    \/ kind = "failure" /\ ~e.success

RECURSIVE CountRecords(_, _, _)
CountRecords(execs, S, kind) ==
    IF S = {} THEN 0
    ELSE LET x == CHOOSE y \in S : TRUE
         IN Cardinality({i \in DOMAIN execs[x] : Matches(execs[x][i], kind)})
            + CountRecords(execs, S \ {x}, kind)

\* variant: runningJobs counts the busy jobs only
GetStatsBusyOnly ==
    LET all == GetAllJobs
    IN [totalJobs |-> Cardinality(DOMAIN all),
        runningJobs |-> Cardinality({n \in DOMAIN all : all[n].status = "running"}),
        pausedJobs |-> Cardinality({n \in DOMAIN all : all[n].status = "paused"}),
        stoppedJobs |-> Cardinality({n \in DOMAIN all : all[n].status = "stopped"}),
        totalExecutions |-> CountRecords(executions, DOMAIN executions, "all"),
        successfulExecutions |-> CountRecords(executions, DOMAIN executions, "success"),
        failedExecutions |-> CountRecords(executions, DOMAIN executions, "failure")]

\* getStats(): counts over getAllJobs() and over all histories
GetStats ==
    LET all == GetAllJobs
    IN [totalJobs |-> Cardinality(DOMAIN all),
        runningJobs |-> Cardinality({n \in DOMAIN all :
                                       all[n].status = "running" \/ all[n].status = "idle"}),
        pausedJobs |-> Cardinality({n \in DOMAIN all : all[n].status = "paused"}),
        stoppedJobs |-> Cardinality({n \in DOMAIN all : all[n].status = "stopped"}),
        totalExecutions |-> CountRecords(executions, DOMAIN executions, "all"),
        successfulExecutions |-> CountRecords(executions, DOMAIN executions, "success"),
        failedExecutions |-> CountRecords(executions, DOMAIN executions, "failure")]

\* the last operation: which, on which name, what it returned, and the
\* status getJobStatus gave the name just before it
Internal == [op |-> "internal", name |-> None, ret |-> None, was |-> None]

\* an invocation settled: how the promise of Cron._trigger ended, and how
\* the invocation had been started
Settled(name, inv, outcome) ==
    [op |-> "settle", name |-> name, ret |-> outcome,
     was |-> IF inv.manual THEN "manual" ELSE "scheduled"]

Op(op, name, ret) ==
    [op |-> op, name |-> name, ret |-> ret,
     was |-> IF name \in Names THEN GetJobStatus(name) ELSE None]

\* ------------------------------------------------------------------ Init
\* ------------------------------------------------------------ HTTP layer
\* the environment when no variable is set
DefaultEnv == [RATE_LIMIT_MAX |-> DefaultRateLimitMax,
               RATE_LIMIT_WINDOW |-> DefaultRateLimitWindow,
               REQUIRE_HTTPS |-> FALSE]

\* the environments the server is started in
Envs == [RATE_LIMIT_MAX : 0..MaxLimit, RATE_LIMIT_WINDOW : {MaxWindow},
         REQUIRE_HTTPS : BOOLEAN]

Ips == {"ip1", "ip2"}

\* req.params.name: a registered name, an unknown one, one with a slash
ParamNames == {"a", "b", "a/b"}

\* a request: the client IP its headers give, the protocol its headers and
\* URL give, its Authorization header (absent, wrong, right), the job named
AllRequests == [ip : Ips, protocol : {"https:", "http:"},
                auth : {"none", "bad", "good"}, name : ParamNames]

\* the requests made: every name with the right credentials over https, and
\* for job a every other combination but plain http without credentials
Requests == {r \in AllRequests :
               /\ r.auth # "good" => (r.name = "a" /\ r.protocol = "https:")
               /\ r.protocol = "http:" => r.name = "a"}

\* validateJobName: the name matches /^[a-zA-Z0-9\-_.]+$/
ValidJobName(name) == name \in {"a", "b"}

\* variant: when the log is full the new event is dropped, not the oldest
AuditLogPops(evs, type, req, details) ==
    LET pushed == Append(evs, [type |-> type, ip |-> req.ip, details |-> details])
    IN IF Len(pushed) > AuditMaxEvents THEN evs ELSE pushed

\* AuditLogger.log: push the event, shift the oldest out past maxEvents
AuditLog(evs, type, req, details) ==
    LET pushed == Append(evs, [type |-> type, ip |-> req.ip, details |-> details])
    IN IF Len(pushed) > AuditMaxEvents THEN Tail(pushed) ELSE pushed

\* variant: the limit is compared with the count before the increment
RateLimiterCheckLate(reqs, ip, t) ==
    IF ip \notin DOMAIN reqs \/ t > reqs[ip].resetTime
    THEN [requests |-> MapSet(reqs, ip, [count |-> 1,
                                         resetTime |-> t + env.RATE_LIMIT_WINDOW]),
          ok |-> TRUE]
    ELSE [requests |-> [reqs EXCEPT ![ip].count = @ + 1],
          ok |-> reqs[ip].count <= env.RATE_LIMIT_MAX]

\* RateLimiter.check: the map after the call and what the call returns
RateLimiterCheck(reqs, ip, t) ==
    IF ip \notin DOMAIN reqs \/ t > reqs[ip].resetTime
    THEN [requests |-> MapSet(reqs, ip, [count |-> 1,
                                         resetTime |-> t + env.RATE_LIMIT_WINDOW]),
          ok |-> TRUE]
    ELSE [requests |-> [reqs EXCEPT ![ip].count = @ + 1],
          ok |-> reqs[ip].count + 1 <= env.RATE_LIMIT_MAX]

\* requireHTTPS on the state st = [requests, events, response] of a chain
RequireHTTPS(st, req) ==
    IF env.REQUIRE_HTTPS /\ req.protocol # "https:"
    THEN [st EXCEPT !.events = AuditLog(@, "HTTPS_REQUIRED", req, None),
                    !.response = "403"]
    ELSE st

\* requireRateLimit
RequireRateLimit(st, req) ==
    LET checked == RateLimiterCheck(st.requests, req.ip, now)
    IN IF ~checked.ok
       THEN [requests |-> checked.requests,
             events |-> AuditLog(st.events, "RATE_LIMIT_EXCEEDED", req, None),
             response |-> "429"]
       ELSE [st EXCEPT !.requests = checked.requests]

\* requireAuth
RequireAuth(st, req) ==
    IF req.auth = "none" THEN [st EXCEPT !.response = "401"]
    ELSE IF req.auth = "bad"
    THEN [st EXCEPT !.events = AuditLog(@, "AUTH_FAILURE", req, "basic"),
                    !.response = "401"]
    ELSE [st EXCEPT !.events = AuditLog(@, "AUTH_SUCCESS", req, "basic")]

Middleware(m, st, req) ==
    IF m = "requireHTTPS" THEN RequireHTTPS(st, req)
    ELSE IF m = "requireRateLimit" THEN RequireRateLimit(st, req)
    ELSE RequireAuth(st, req)

\* variant: the loop runs every middleware and keeps no rejection of an
\* earlier one
RECURSIVE ApplySecurityMiddlewareAll(_, _, _)
ApplySecurityMiddlewareAll(st, req, middlewares) ==
    IF middlewares = <<>> THEN st
    ELSE ApplySecurityMiddlewareAll(
             Middleware(Head(middlewares), [st EXCEPT !.response = None], req),
             req, Tail(middlewares))

\* applySecurityMiddleware: the first response a middleware returns ends the loop
RECURSIVE ApplySecurityMiddleware(_, _, _)
ApplySecurityMiddleware(st, req, middlewares) ==
    IF middlewares = <<>> THEN st
    ELSE LET after == Middleware(Head(middlewares), st, req)
         IN IF after.response # None THEN after
            ELSE ApplySecurityMiddleware(after, req, Tail(middlewares))

\* the chain as a route starts it
Chain(req, middlewares) ==
    ApplySecurityMiddleware([requests |-> requests, events |-> events,
                             response |-> None], req, middlewares)

Init ==
    /\ maxExecutionLogs \in 0..MaxCap
    /\ jobs = EmptyMap
    /\ configs = EmptyMap
    /\ executions = EmptyMap
    /\ inflight = [n \in Names |-> <<>>]
    /\ now = 0
    /\ nrec = 0
    /\ last = Internal
    /\ env = DefaultEnv
    /\ requests = EmptyMap
    /\ events = <<>>
    /\ response = None

\* ------------------------------------------------------------------ actions
\* variant: the config and an empty history are stored before the check throws
RegisterDuplicateStoresFirst(config) ==
    /\ config.name \in DOMAIN jobs
    /\ configs' = MapSet(configs, config.name, config)
    /\ executions' = MapSet(executions, config.name, <<>>)
    /\ last' = Op("register", config.name, "threw")
    /\ UNCHANGED <<maxExecutionLogs, jobs, inflight, now, nrec>>
    /\ UNCHANGED web

\* register(config) when the name has a live Cron: throws before any write
RegisterDuplicate(config) ==
    /\ config.name \in DOMAIN jobs
    /\ last' = Op("register", config.name, "threw")
    /\ UNCHANGED <<maxExecutionLogs, jobs, configs, executions, inflight, now, nrec>>
    /\ UNCHANGED web

\* register(config) otherwise: config and an empty history are stored, then
\* createJob runs if enabled (and throws there on a malformed pattern)
RegisterNew(config) ==
    /\ config.name \notin DOMAIN jobs
    /\ configs' = MapSet(configs, config.name, config)
    /\ executions' = MapSet(executions, config.name, <<>>)
    /\ IF ~config.enabled
       THEN /\ jobs' = jobs
            /\ last' = Op("register", config.name, "ok")
       ELSE IF ~PatternValid(config.pattern)
       THEN /\ jobs' = jobs
            /\ last' = Op("register", config.name, "threw")
       ELSE /\ jobs' = MapSet(jobs, config.name, NewCron(config, now))
            /\ last' = Op("register", config.name, "ok")
    /\ UNCHANGED <<maxExecutionLogs, inflight, now, nrec>>
    /\ UNCHANGED web

Register(config) == RegisterDuplicate(config) \/ RegisterNew(config)

\* one register call inside registerAll, on the maps as the calls before it
\* left them: st.threw is set when the call throws
RegisterResult(st, config) ==
    IF config.name \in DOMAIN st.jobs
    THEN [st EXCEPT !.threw = TRUE]
    ELSE LET stored == [st EXCEPT !.configs = MapSet(@, config.name, config),
                                  !.executions = MapSet(@, config.name, <<>>)]
         IN IF ~config.enabled
            THEN [stored EXCEPT !.done = @ + 1]
            ELSE IF ~PatternValid(config.pattern)
            THEN [stored EXCEPT !.threw = TRUE]
            ELSE [stored EXCEPT !.jobs = MapSet(@, config.name, NewCron(config, now)),
                                !.done = @ + 1]

\* variant: a loop that catches what a call throws and goes on
RECURSIVE RegisterEachContinues(_, _)
RegisterEachContinues(st, list) ==
    IF list = <<>> THEN st
    ELSE RegisterEachContinues(RegisterResult(st, Head(list)), Tail(list))

\* the loop of registerAll: it ends with the first call that throws
RECURSIVE RegisterEach(_, _)
RegisterEach(st, list) ==
    IF list = <<>> \/ st.threw THEN st
    ELSE RegisterEach(RegisterResult(st, Head(list)), Tail(list))

\* what registerAll(list) makes of the current maps
RegisterAllResult(list) ==
    RegisterEach([jobs |-> jobs, configs |-> configs, executions |-> executions,
                  threw |-> FALSE, done |-> 0], list)

\* registerAll(configs): register each in turn
RegisterAll(list) ==
    /\ LET st == RegisterAllResult(list)
       IN /\ jobs' = st.jobs
          /\ configs' = st.configs
          /\ executions' = st.executions
          /\ last' = [op |-> "registerAll", name |-> None,
                      ret |-> IF st.threw THEN "threw" ELSE "ok", was |-> None]
    /\ UNCHANGED <<maxExecutionLogs, inflight, now, nrec>>
    /\ UNCHANGED web

\* the model's bound on starting one more invocation of job name
CanStart(name) == Started < MaxRuns

\* variant: a due timer is re-armed and the handler is never started
TimerFireNeverStarts(name) ==
    /\ name \in DOMAIN jobs
    /\ now >= jobs[name].timerAt
    /\ jobs' = [jobs EXCEPT ![name] = CronSchedule(@, now)]
    /\ last' = Internal
    /\ UNCHANGED <<maxExecutionLogs, configs, executions, inflight, now, nrec>>
    /\ UNCHANGED web

\* variant: one lock for all jobs, a due timer starts nothing while a
\* handler of any job is running
TimerFireSerialized(name) ==
    /\ name \in DOMAIN jobs
    /\ now >= jobs[name].timerAt
    /\ IF ShouldFire(jobs[name]) /\ \A other \in DOMAIN jobs : ~jobs[other].blocking
       THEN /\ CanStart(name)
            /\ jobs' = [jobs EXCEPT ![name] = CronSchedule(CronStart(@, now), now)]
            /\ inflight' = [inflight EXCEPT ![name] =
                                Append(@, NewInvocation(now, FALSE))]
            /\ last' = Internal
       ELSE /\ jobs' = [jobs EXCEPT ![name] = CronSchedule(@, now)]
            /\ inflight' = inflight
            /\ last' = Internal
    /\ UNCHANGED <<maxExecutionLogs, configs, executions, now, nrec>>
    /\ UNCHANGED web

\* the timeout armed by schedule() expires: Cron._checkTrigger, then schedule()
TimerFire(name) ==
    /\ name \in DOMAIN jobs
    /\ now >= jobs[name].timerAt
    /\ IF ShouldFire(jobs[name])
       THEN /\ CanStart(name)
            /\ jobs' = [jobs EXCEPT ![name] = CronSchedule(CronStart(@, now), now)]
            /\ inflight' = [inflight EXCEPT ![name] =
                                Append(@, NewInvocation(now, FALSE))]
            /\ last' = Internal
       ELSE /\ jobs' = [jobs EXCEPT ![name] = CronSchedule(@, now)]
            /\ inflight' = inflight
            /\ last' = Internal
    /\ UNCHANGED <<maxExecutionLogs, configs, executions, now, nrec>>
    /\ UNCHANGED web

\* variant: a trigger that also re-arms the job's timer from now
TriggerReschedules(name) ==
    /\ IF name \notin DOMAIN jobs
       THEN /\ last' = Op("trigger", name, "false")
            /\ UNCHANGED <<jobs, inflight>>
       ELSE /\ CanStart(name)
            /\ jobs' = [jobs EXCEPT ![name] = CronSchedule(CronStart(@, now), now)]
            /\ inflight' = [inflight EXCEPT ![name] =
                                Append(@, NewInvocation(now, TRUE))]
            /\ last' = Op("trigger", name, "true")
    /\ UNCHANGED <<maxExecutionLogs, configs, executions, now, nrec>>
    /\ UNCHANGED web

\* trigger(name): false for a name without a Cron, else job.trigger() and true
ManagerTrigger(name) ==
    /\ IF name \notin DOMAIN jobs
       THEN /\ last' = Op("trigger", name, "false")
            /\ UNCHANGED <<jobs, inflight>>
       ELSE /\ CanStart(name)
            /\ jobs' = [jobs EXCEPT ![name] = CronStart(@, now)]
            /\ inflight' = [inflight EXCEPT ![name] =
                                Append(@, NewInvocation(now, TRUE))]
            /\ last' = Op("trigger", name, "true")
    /\ UNCHANGED <<maxExecutionLogs, configs, executions, now, nrec>>

\* a call of manager.trigger(name) that no HTTP request made
Trigger(name) == ManagerTrigger(name) /\ UNCHANGED web

\* variant: pause that returns without calling job.pause()
PauseSkipsCron(name) ==
    /\ last' = Op("pause", name, Bool(name \in DOMAIN jobs))
    /\ UNCHANGED <<maxExecutionLogs, jobs, configs, executions, inflight, now, nrec>>
    /\ UNCHANGED web

\* variant: pause that replaces the stored pattern
PauseLosesPattern(name) ==
    /\ IF name \notin DOMAIN jobs
       THEN /\ last' = Op("pause", name, "false")
            /\ UNCHANGED <<jobs, configs>>
       ELSE /\ jobs' = [jobs EXCEPT ![name] = CronPause(@)]
            /\ configs' = [configs EXCEPT ![name].pattern = BadPattern]
            /\ last' = Op("pause", name, "true")
    /\ UNCHANGED <<maxExecutionLogs, executions, inflight, now, nrec>>
    /\ UNCHANGED web

\* variant: pause that reports success without looking the name up
PauseUnchecked(name) ==
    /\ jobs' = IF name \in DOMAIN jobs THEN [jobs EXCEPT ![name] = CronPause(@)] ELSE jobs
    /\ last' = Op("pause", name, "true")
    /\ UNCHANGED <<maxExecutionLogs, configs, executions, inflight, now, nrec>>
    /\ UNCHANGED web

\* pause(name): false for a name without a Cron, else job.pause() and true
ManagerPause(name) ==
    /\ IF name \notin DOMAIN jobs
       THEN /\ last' = Op("pause", name, "false")
            /\ jobs' = jobs
       ELSE /\ jobs' = [jobs EXCEPT ![name] = CronPause(@)]
            /\ last' = Op("pause", name, "true")
    /\ UNCHANGED <<maxExecutionLogs, configs, executions, inflight, now, nrec>>

\* a call of manager.pause(name) that no HTTP request made
Pause(name) == ManagerPause(name) /\ UNCHANGED web

\* variant: resume that returns true only if the job was paused
ResumeOnlyIfPaused(name) ==
    /\ IF name \notin DOMAIN jobs
       THEN /\ last' = Op("resume", name, "false")
            /\ jobs' = jobs
       ELSE /\ jobs' = [jobs EXCEPT ![name] = CronResume(@)]
            /\ last' = Op("resume", name, Bool(jobs[name].paused))
    /\ UNCHANGED <<maxExecutionLogs, configs, executions, inflight, now, nrec>>
    /\ UNCHANGED web

\* variant: resume of a paused job whose timer is due runs the handler at once
ResumeCatchesUp(name) ==
    /\ IF name \notin DOMAIN jobs
       THEN /\ last' = Op("resume", name, "false")
            /\ UNCHANGED <<jobs, inflight>>
       ELSE IF jobs[name].paused /\ jobs[name].timerAt <= now + 1 /\ CanStart(name)
       THEN /\ jobs' = [jobs EXCEPT ![name] = CronStart(CronResume(@), now)]
            /\ inflight' = [inflight EXCEPT ![name] =
                                Append(@, NewInvocation(now, FALSE))]
            /\ last' = Op("resume", name, "true")
       ELSE /\ jobs' = [jobs EXCEPT ![name] = CronResume(@)]
            /\ inflight' = inflight
            /\ last' = Op("resume", name, "true")
    /\ UNCHANGED <<maxExecutionLogs, configs, executions, now, nrec>>
    /\ UNCHANGED web

\* resume(name): false for a name without a Cron, else the result of job.resume()
ManagerResume(name) ==
    /\ IF name \notin DOMAIN jobs
       THEN /\ last' = Op("resume", name, "false")
            /\ jobs' = jobs
       ELSE /\ jobs' = [jobs EXCEPT ![name] = CronResume(@)]
            /\ last' = Op("resume", name, Bool(CronResumeResult(jobs[name])))
    /\ UNCHANGED <<maxExecutionLogs, configs, executions, inflight, now, nrec>>

\* a call of manager.resume(name) that no HTTP request made
Resume(name) == ManagerResume(name) /\ UNCHANGED web

\* job.stop() kills the Cron: its timeout is cleared, and an invocation it
\* has in flight finishes on an object the manager no longer holds
Orphan(invs) == [i \in DOMAIN invs |-> [invs[i] EXCEPT !.live = FALSE]]

\* variant: stop that also cancels the invocations in flight
StopInterrupts(name) ==
    /\ IF name \notin DOMAIN jobs
       THEN /\ last' = Op("stop", name, "false")
            /\ UNCHANGED <<jobs, inflight>>
       ELSE /\ jobs' = MapDelete(jobs, name)
            /\ inflight' = [inflight EXCEPT ![name] = <<>>]
            /\ last' = Op("stop", name, "true")
    /\ UNCHANGED <<maxExecutionLogs, configs, executions, now, nrec>>
    /\ UNCHANGED web

\* variant: stop that also drops the config and the history
StopForgetsConfig(name) ==
    /\ IF name \notin DOMAIN jobs
       THEN /\ last' = Op("stop", name, "false")
            /\ UNCHANGED <<jobs, inflight, configs, executions>>
       ELSE /\ jobs' = MapDelete(jobs, name)
            /\ configs' = MapDelete(configs, name)
            /\ executions' = MapDelete(executions, name)
            /\ inflight' = [inflight EXCEPT ![name] = Orphan(@)]
            /\ last' = Op("stop", name, "true")
    /\ UNCHANGED <<maxExecutionLogs, now, nrec>>
    /\ UNCHANGED web

\* variant: stop that leaves the stopped Cron in the map
StopKeepsCron(name) ==
    /\ IF name \notin DOMAIN jobs
       THEN /\ last' = Op("stop", name, "false")
            /\ UNCHANGED <<jobs, inflight>>
       ELSE /\ jobs' = jobs
            /\ inflight' = [inflight EXCEPT ![name] = Orphan(@)]
            /\ last' = Op("stop", name, "true")
    /\ UNCHANGED <<maxExecutionLogs, configs, executions, now, nrec>>
    /\ UNCHANGED web

\* stop(name): false for a name without a Cron, else job.stop(), jobs.delete(name), true
Stop(name) ==
    /\ IF name \notin DOMAIN jobs
       THEN /\ last' = Op("stop", name, "false")
            /\ UNCHANGED <<jobs, inflight>>
       ELSE /\ jobs' = MapDelete(jobs, name)
            /\ inflight' = [inflight EXCEPT ![name] = Orphan(@)]
            /\ last' = Op("stop", name, "true")
    /\ UNCHANGED <<maxExecutionLogs, configs, executions, now, nrec>>
    /\ UNCHANGED web

\* variant: stopAll that also clears the configs and the histories
StopAllForgetsConfigs ==
    /\ jobs' = EmptyMap
    /\ configs' = EmptyMap
    /\ executions' = EmptyMap
    /\ inflight' = [n \in Names |-> IF n \in DOMAIN jobs THEN Orphan(inflight[n])
                                    ELSE inflight[n]]
    /\ last' = Op("stopAll", None, "ok")
    /\ UNCHANGED <<maxExecutionLogs, now, nrec>>
    /\ UNCHANGED web

\* stopAll(): job.stop() for every Cron, then jobs.clear()
StopAll ==
    /\ jobs' = EmptyMap
    /\ inflight' = [n \in Names |-> IF n \in DOMAIN jobs THEN Orphan(inflight[n])
                                    ELSE inflight[n]]
    /\ last' = Op("stopAll", None, "ok")
    /\ UNCHANGED <<maxExecutionLogs, configs, executions, now, nrec>>
    /\ UNCHANGED web

\* the handler of invocation i of job name settles (success or throw): the
\* wrapper records the execution, then Cron._trigger clears blocking
Complete(name, i, success) ==
    /\ i \in DOMAIN inflight[name]
    /\ LET inv == inflight[name][i]
           wrapped == IF WrapperRecords(success)
                      THEN RecordExecution(executions, name, success, inv, now)
                      ELSE executions
       IN /\ jobs' = IF inv.live /\ name \in DOMAIN jobs
                     THEN [jobs EXCEPT ![name] = CronFinish(@, now)]
                     ELSE jobs
          \* the catch option is that of the Cron that ran the invocation; of
          \* a Cron the manager has dropped it may have been either
          /\ \E catch \in BOOLEAN :
                /\ inv.live => catch = jobs[name].catch
                \* croner calls the catch callback with what the wrapper threw
                /\ executions' = IF catch /\ WrapperOutcome(success) = "rejected"
                                  THEN RecordExecutionCaught(wrapped, name, now)
                                  ELSE wrapped
                /\ last' = Settled(name, inv,
                                   CronTriggerOutcome(catch, WrapperOutcome(success)))
    /\ nrec' = nrec + 1
    /\ inflight' = [inflight EXCEPT ![name] = RemoveAt(@, i)]
    /\ UNCHANGED <<maxExecutionLogs, configs, now>>
    /\ UNCHANGED web

Tick ==
    /\ now < MaxTime
    /\ \A n \in DOMAIN jobs : jobs[n].timerAt > now
    /\ now' = now + 1
    /\ last' = Internal
    /\ UNCHANGED <<maxExecutionLogs, jobs, configs, executions, inflight, nrec>>
    /\ UNCHANGED web

\* ------------------------------------------------------------------ Next
Next ==
    \/ \E c \in Configs : Register(c)
    \/ \E n \in Names : TimerFire(n)
    \/ \E n \in Names : Trigger(n)
    \/ \E n \in Names : Pause(n)
    \/ \E n \in Names : Resume(n)
    \/ \E n \in Names : Stop(n)
    \/ StopAll
    \/ \E n \in Names, i \in 1..MaxRuns, s \in BOOLEAN : Complete(n, i, s)
    \/ Tick

Spec == Init /\ [][Next]_vars

\* two jobs at one instant: registerAll, trigger, completion, stop, stopAll
\* ------------------------------------------------------ HTTP layer actions
\* the manager's variables
manager == <<maxExecutionLogs, jobs, configs, executions, inflight, now, nrec, last>>

\* the model's bound on serving one more request from req.ip
CanServe(req) ==
    /\ Cardinality({i \in DOMAIN events : events[i].ip \in Ips}) < MaxEvents
    /\ req.ip \in DOMAIN requests => requests[req.ip].count <= MaxLimit

\* manager.trigger / pause / resume as the three routes call them
ManagerCall(op, name) ==
    \/ op = "trigger" /\ ManagerTrigger(name)
    \/ op = "pause" /\ ManagerPause(name)
    \/ op = "resume" /\ ManagerResume(name)

JobEvent(op) ==
    IF op = "trigger" THEN "JOB_TRIGGERED"
    ELSE IF op = "pause" THEN "JOB_PAUSED" ELSE "JOB_RESUMED"

\* POST /api/jobs/:name/trigger, /pause and /resume
PostJob(op, req) ==
    /\ CanServe(req)
    /\ LET st == Chain(req, <<"requireHTTPS", "requireRateLimit", "requireAuth">>)
       IN /\ requests' = st.requests
          /\ IF st.response # None
             THEN /\ events' = st.events
                  /\ response' = st.response
                  /\ UNCHANGED manager
             ELSE IF ~ValidJobName(req.name)
             THEN /\ events' = AuditLog(st.events, "INVALID_INPUT", req, "message")
                  /\ response' = "400"
                  /\ UNCHANGED manager
             ELSE /\ ManagerCall(op, req.name)
                  /\ events' = IF last'.ret = "true"
                               THEN AuditLog(st.events, JobEvent(op), req, req.name)
                               ELSE st.events
                  /\ response' = IF last'.ret = "true" THEN "200" ELSE "404"
    /\ env' = env

\* GET /health: rate limited, not authenticated
GetHealth(req) ==
    /\ CanServe(req)
    /\ LET st == Chain(req, <<"requireHTTPS", "requireRateLimit">>)
       IN /\ requests' = st.requests
          /\ events' = st.events
          /\ response' = IF st.response # None THEN st.response ELSE "200"
    /\ UNCHANGED <<manager, env>>

\* RateLimiter.cleanup, run by its interval timer
Cleanup ==
    /\ \E ip \in DOMAIN requests : now > requests[ip].resetTime
    /\ requests' = [ip \in {i \in DOMAIN requests : now <= requests[i].resetTime}
                       |-> requests[ip]]
    /\ UNCHANGED <<manager, env, events, response>>

\* the clock of the HTTP layer advances
WebTick ==
    /\ now < MaxWebTime
    /\ now' = now + 1
    /\ last' = Internal
    /\ UNCHANGED <<maxExecutionLogs, jobs, configs, executions, inflight, nrec>>
    /\ UNCHANGED web

\* the server after start: a manager for one record per job on which job a
\* is registered with the default options, an empty limiter and audit log
InitWeb ==
    /\ maxExecutionLogs = 1
    /\ \E c \in Configs :
          /\ c.enabled /\ PatternValid(c.pattern) /\ DefaultOptions(c)
          /\ configs = MapSet(EmptyMap, c.name, c)
          /\ jobs = MapSet(EmptyMap, c.name, NewCron(c, 0))
          /\ executions = MapSet(EmptyMap, c.name, <<>>)
    /\ inflight = [n \in Names |-> <<>>]
    /\ now = 0
    /\ nrec = 0
    /\ last = Internal
    /\ env \in Envs
    /\ requests = EmptyMap
    /\ events = <<>>
    /\ response = None

NextWeb ==
    \/ \E op \in {"trigger", "pause", "resume"}, req \in Requests : PostJob(op, req)
    \/ \E req \in Requests : GetHealth(req)
    \/ Cleanup
    \/ WebTick

SpecWeb == InitWeb /\ [][NextWeb]_vars

\* ------------------------------------------------- one job, slow handlers
\* a manager with room for every record, whose job a was registered at 0
\* with a well-formed pattern, with or without overlap protection
InitSlow ==
    /\ maxExecutionLogs = MaxCap
    /\ \E c \in Configs :
          /\ c.enabled /\ PatternValid(c.pattern)
          /\ configs = MapSet(EmptyMap, c.name, c)
          /\ jobs = MapSet(EmptyMap, c.name, NewCron(c, 0))
          /\ executions = MapSet(EmptyMap, c.name, <<>>)
    /\ inflight = [n \in Names |-> <<>>]
    /\ now = 0
    /\ nrec = 0
    /\ last = Internal
    /\ env = DefaultEnv
    /\ requests = EmptyMap
    /\ events = <<>>
    /\ response = None

\* the clock, running one instant further than MaxTime so that a handler
\* started by the first fire can be running at the second
SlowTick ==
    /\ now < MaxTime + 1
    /\ \A n \in DOMAIN jobs : jobs[n].timerAt > now
    /\ now' = now + 1
    /\ last' = Internal
    /\ UNCHANGED <<maxExecutionLogs, jobs, configs, executions, inflight, nrec>>
    /\ UNCHANGED web

\* the timer, the handlers, pause and resume: nothing is triggered or stopped
NextSlow ==
    \/ \E n \in Names : TimerFire(n)
    \/ \E n \in RegNames : Pause(n)
    \/ \E n \in RegNames : Resume(n)
    \/ \E n \in Names, i \in 1..MaxRuns, s \in BOOLEAN : Complete(n, i, s)
    \/ SlowTick

SpecSlow == InitSlow /\ [][NextSlow]_vars

\* a manager that keeps one record per job: new CronManager(1)
InitOne ==
    /\ Init
    /\ maxExecutionLogs = 1

SpecOne == InitOne /\ [][Next]_vars

\* a manager whose histories hold every record of a behaviour
InitRoomy == Init /\ maxExecutionLogs = MaxCap

SpecRoomy == InitRoomy /\ [][Next]_vars

\* a definition with the default options
PairConfig(n) ==
    [name |-> n, description |-> "d1", pattern |-> GoodPattern, timezone |-> None,
     enabled |-> TRUE, protect |-> TRUE, catch |-> TRUE]

\* ------------------------------------------------------- a long audit log
\* the log after k rejected requests of an earlier client, whose events
\* differ in their details
PastEvents(k) ==
    [i \in 1..k |-> [type |-> "INVALID_INPUT", ip |-> "ip0", details |-> ToString(i)]]

\* a server that requires HTTPS, job a registered, its audit log full or
\* one event short of it
InitAudit ==
    /\ maxExecutionLogs = 1
    /\ configs = MapSet(EmptyMap, "a", PairConfig("a"))
    /\ jobs = MapSet(EmptyMap, "a", NewCron(PairConfig("a"), 0))
    /\ executions = MapSet(EmptyMap, "a", <<>>)
    /\ inflight = [n \in Names |-> <<>>]
    /\ now = 0
    /\ nrec = 0
    /\ last = Internal
    /\ env = [RATE_LIMIT_MAX |-> MaxLimit, RATE_LIMIT_WINDOW |-> MaxWindow,
              REQUIRE_HTTPS |-> TRUE]
    /\ requests = EmptyMap
    /\ \E k \in {AuditMaxEvents - 1, AuditMaxEvents} : events = PastEvents(k)
    /\ response = None

\* the requests for job a
AuditRequests == {r \in Requests : r.name = "a"}

NextAudit ==
    \/ \E op \in {"trigger", "pause"}, req \in AuditRequests : PostJob(op, req)
    \/ \E req \in AuditRequests : GetHealth(req)

SpecAudit == InitAudit /\ [][NextAudit]_vars

\* ------------------------------------------------- reading the audit log
\* Array.prototype.slice(start): from index start, counted from the end when
\* start is negative; the negation of 0 is 0, which counts from the front
Slice(s, start) ==
    LET k == IF start < 0
             THEN (IF Len(s) + start > 0 THEN Len(s) + start ELSE 0)
             ELSE (IF start < Len(s) THEN start ELSE Len(s))
    IN SubSeq(s, k + 1, Len(s))

\* AuditLogger.getRecentEvents(limit)
GetRecentEvents(evs, limit) == Slice(evs, 0 - limit)

RECURSIVE ParseInt(_)
\* parseInt(digits, 10) of a string of decimal digits
ParseInt(digits) ==
    IF Len(digits) = 0 THEN 0
    ELSE 10 * ParseInt(SubSeq(digits, 1, Len(digits) - 1)) + digits[Len(digits)]

\* the values of the limit parameter: absent, or one digit
LimitParams == {<<>>} \cup {<<d>> : d \in 0..MaxQuery}

\* GET /api/audit?limit=param: the full chain, then the recent events
GetAudit(req, param) ==
    /\ CanServe(req)
    /\ LET st == Chain(req, <<"requireHTTPS", "requireRateLimit", "requireAuth">>)
           limit == IF param = <<>> THEN DefaultAuditLimit ELSE ParseInt(param)
       IN /\ requests' = st.requests
          /\ events' = st.events
          /\ IF st.response # None
             THEN /\ response' = st.response
                  /\ last' = Internal
             ELSE /\ response' = "200"
                  /\ last' = [op |-> "getRecentEvents", name |-> None,
                              ret |-> GetRecentEvents(st.events, limit), was |-> limit]
    /\ UNCHANGED <<maxExecutionLogs, jobs, configs, executions, inflight, now, nrec, env>>

NextRecent ==
    \/ \E op \in {"trigger", "pause"}, req \in AuditRequests : PostJob(op, req)
    \/ \E req \in AuditRequests, param \in LimitParams : GetAudit(req, param)

SpecRecent == InitWeb /\ [][NextRecent]_vars

\* --------------------------------------------------------------- queries
\* variant: getJob takes the records it reports out of the history (splice
\* for slice)
QueryGetJobSplices(name) ==
    /\ last' = [op |-> "getJob", name |-> name, ret |-> GetJob(name), was |-> None]
    /\ executions' = IF name \in DOMAIN executions
                      THEN [executions EXCEPT ![name] =
                               SubSeq(@, SnapshotLimit + 1, Len(@))]
                      ELSE executions
    /\ UNCHANGED <<maxExecutionLogs, jobs, configs, inflight, now, nrec>>
    /\ UNCHANGED web

\* a call of getJob(name): last.ret is what it returns
QueryGetJob(name) ==
    /\ last' = [op |-> "getJob", name |-> name, ret |-> GetJob(name), was |-> None]
    /\ UNCHANGED <<maxExecutionLogs, jobs, configs, executions, inflight, now, nrec>>
    /\ UNCHANGED web

\* a call of getAllJobs()
QueryGetAllJobs ==
    /\ last' = [op |-> "getAllJobs", name |-> None, ret |-> GetAllJobs, was |-> None]
    /\ UNCHANGED <<maxExecutionLogs, jobs, configs, executions, inflight, now, nrec>>
    /\ UNCHANGED web

\* a call of getStats()
QueryGetStats ==
    /\ last' = [op |-> "getStats", name |-> None, ret |-> GetStats, was |-> None]
    /\ UNCHANGED <<maxExecutionLogs, jobs, configs, executions, inflight, now, nrec>>
    /\ UNCHANGED web

\* registrations, triggers, pauses, stops and completions, and the queries
NextQuery ==
    \/ \E c \in Configs : Register(c)
    \/ \E n \in RegNames : Trigger(n)
    \/ \E n \in RegNames : Pause(n)
    \/ \E n \in RegNames : Stop(n)
    \/ \E n \in Names, i \in 1..MaxRuns, s \in BOOLEAN : Complete(n, i, s)
    \/ \E n \in Names : QueryGetJob(n)
    \/ QueryGetAllJobs
    \/ QueryGetStats

SpecQuery == InitOne /\ [][NextQuery]_vars

\* ------------------------------------------------------------- two jobs
\* a manager after registerAll of two such definitions at time 0
InitPair ==
    /\ maxExecutionLogs = 1
    /\ configs = [n \in Names |-> PairConfig(n)]
    /\ jobs = [n \in Names |-> NewCron(PairConfig(n), 0)]
    /\ executions = [n \in Names |-> <<>>]
    /\ inflight = [n \in Names |-> <<>>]
    /\ now = 0
    /\ nrec = 0
    /\ last = Internal
    /\ env = DefaultEnv
    /\ requests = EmptyMap
    /\ events = <<>>
    /\ response = None

\* the control operations on job a, the timers and the handlers of both jobs
NextPair ==
    \/ \E n \in Names : TimerFire(n)
    \/ \E n \in RegNames : Trigger(n)
    \/ \E n \in RegNames : Pause(n)
    \/ \E n \in RegNames : Resume(n)
    \/ \E n \in RegNames : Stop(n)
    \/ \E n \in Names, i \in 1..MaxRuns, s \in BOOLEAN : Complete(n, i, s)
    \/ Tick

SpecPair == InitPair /\ [][NextPair]_vars

\* the scheduling the runtime provides: the clock advances, a timer that is
\* due runs its callback, and handlers that were started terminate
Fairness ==
    /\ WF_vars(Tick)
    /\ \A n \in Names : WF_vars(TimerFire(n))
    /\ WF_vars(\E n \in Names, i \in 1..MaxRuns, s \in BOOLEAN : Complete(n, i, s))

SpecLive == InitOne /\ [][Next]_vars /\ Fairness

\* the history of a job that has completed k runs before the first state:
\* newest first, the f newest succeeded and the older ones failed
PastRuns(name, k, f) ==
    [i \in 1..k |-> [jobName |-> name, startTime |-> 0, endTime |-> 0,
                     duration |-> 0, success |-> i <= f,
                     error |-> IF i <= f THEN None ELSE "message",
                     seq |-> 1 - i]]

\* a manager constructed with a capacity of at least SnapshotLimit on which
\* job a, registered with the default options, has already completed k runs
InitLog ==
    /\ maxExecutionLogs \in SnapshotLimit..LogCap
    /\ \E c \in Configs, k \in 0..LogCap, f \in 0..LogCap :
          /\ c.enabled /\ PatternValid(c.pattern) /\ DefaultOptions(c)
          /\ k <= maxExecutionLogs
          /\ f \in {0, SnapshotLimit, k} /\ f <= k
          /\ configs = MapSet(EmptyMap, c.name, c)
          /\ jobs = MapSet(EmptyMap, c.name,
                           [NewCron(c, 0) EXCEPT
                               !.previousRun = IF k > 0 THEN 0 ELSE NoTime])
          /\ executions = MapSet(EmptyMap, c.name, PastRuns(c.name, k, f))
    /\ inflight = [n \in Names |-> <<>>]
    /\ now = 0
    /\ nrec = 0
    /\ last = Internal
    /\ env = DefaultEnv
    /\ requests = EmptyMap
    /\ events = <<>>
    /\ response = None

NextLog ==
    \/ \E c \in Configs : Register(c)
    \/ \E n \in Names : Trigger(n)
    \/ \E n \in Names : Stop(n)
    \/ \E n \in Names, i \in 1..MaxRuns, s \in BOOLEAN : Complete(n, i, s)

SpecLog == InitLog /\ [][NextLog]_vars

NextDuo ==
    \/ \E list \in ConfigLists : RegisterAll(list)
    \/ \E n \in Names : Trigger(n)
    \/ \E n \in Names : Stop(n)
    \/ StopAll
    \/ \E n \in Names, i \in 1..MaxRuns, s \in BOOLEAN : Complete(n, i, s)

SpecDuo == Init /\ [][NextDuo]_vars

\* ------------------------------------------------------------------ claims
\* steps of the model, recognised by what they change
LastIs(op, name) == last'.op = op /\ last'.name = name

\* a handler invocation of job name starts
Starts(name) == Len(inflight'[name]) > Len(inflight[name])

\* a handler invocation of job name completes
Completes(name) == Len(inflight'[name]) < Len(inflight[name])

\* the timeout of job name expired and was re-armed
Fires(name) ==
    /\ name \in DOMAIN jobs /\ name \in DOMAIN jobs'
    /\ jobs'[name].timerAt # jobs[name].timerAt

\* C1: a job with overlap protection on never has two handler invocations
\* in flight, and a scheduled fire that falls due while one is in flight
\* starts no handler and adds no record.
C1_AtMostOneInFlight ==
    \A n \in DOMAIN jobs : jobs[n].protect => Len(inflight[n]) <= 1

\* C2: trigger(name) on a job with overlap protection on, issued while an
\* invocation of it is in flight, starts no second invocation and adds no
\* execution record.
C2_TriggerObeysProtection ==
    [][\A n \in DOMAIN jobs :
          (jobs[n].protect /\ inflight[n] # <<>> /\ LastIs("trigger", n))
          => (inflight' = inflight /\ executions' = executions)]_vars


\* C3: register of a name that has a live job (registered enabled, not
\* stopped) throws and leaves definition, runtime and history as they were.
C3_DuplicateOfLiveJobRejected ==
    [][\A n \in DOMAIN jobs :
          LastIs("register", n)
          => (/\ last'.ret = "threw"
              /\ jobs' = jobs /\ configs' = configs
              /\ executions' = executions /\ inflight' = inflight)]_vars

C3_Witness ==
    /\ last.op = "register" /\ last.name = "a" /\ last.ret = "threw"
    /\ last.was = "running"
    /\ executions["a"] # <<>>

\* C4: register of a name that already has a definition (getJob returns a
\* snapshot) is rejected and leaves the definition and history unchanged,
\* whatever the state of the existing job.
C4_NameUniqueWhileDefined ==
    [][\A n \in DOMAIN configs :
          LastIs("register", n)
          => (last'.ret = "threw" /\ configs' = configs /\ executions' = executions)]_vars

\* the snapshot of a job without a runtime: found, reported stopped, listed
StoppedSnapshot(n) ==
    /\ n \notin DOMAIN jobs
    /\ GetJob(n) # NotFound
    /\ n \in DOMAIN GetAllJobs
    /\ GetAllJobs[n].status = "stopped"

\* C5 as stated: after stop(name) returns true, getJob(name) is not-found
\* and getAllJobs() holds no snapshot of the name.
C5_StopRemovesFromRegistry ==
    [][\A n \in Names :
          (LastIs("stop", n) /\ last'.ret = "true")
          => ((GetJob(n) = NotFound)' /\ (n \notin DOMAIN GetAllJobs)')]_vars

\* C5 amended: after stop(name) returns true the job has no runtime, and
\* getJob(name) returns a snapshot with status stopped that getAllJobs()
\* lists, until the name is registered again.
C5_StopKeepsStoppedSnapshot ==
    [][\A n \in Names :
          (\/ LastIs("stop", n) /\ last'.ret = "true"
           \/ n \in DOMAIN configs /\ n \notin DOMAIN jobs /\ ~LastIs("register", n))
          => StoppedSnapshot(n)']_vars

C5_Witness ==
    /\ last.op = "stop" /\ last.name = "a" /\ last.ret = "true"
    /\ last.was = "running"
    /\ inflight["a"] # <<>>
    /\ GetJob("a").status = "stopped"

\* most recent first, by recording order
Ordered(h) == \A i, j \in DOMAIN h : i < j => h[i].seq > h[j].seq

C7_UnknownNameReturnsFalse ==
    [][\A n \in Names :
          (/\ n \notin DOMAIN jobs
           /\ last'.name = n
           /\ last'.op \in {"trigger", "pause", "resume", "stop"})
          => (/\ last'.ret = "false"
              /\ UNCHANGED <<maxExecutionLogs, jobs, configs, executions,
                              inflight, now, nrec>>)]_vars

C7_Witness ==
    /\ last.op = "stop" /\ last.name = "b" /\ last.ret = "false"
    /\ "a" \in DOMAIN jobs
    /\ inflight["a"] # <<>>
    /\ executions["a"] # <<>>

\* resume of a job that is not paused, or pause of one that is
Inapplicable(n) ==
    \/ LastIs("resume", n) /\ GetJobStatus(n) # "paused"
    \/ LastIs("pause", n) /\ GetJobStatus(n) = "paused"

\* C8 as stated: resume of a registered job that is not Paused, and pause
\* of a Paused one, return false and leave the state unchanged.
C8_InapplicableReturnsFalse ==
    [][\A n \in DOMAIN configs :
          Inapplicable(n) => (last'.ret = "false" /\ jobs' = jobs)]_vars

\* C8 amended: on a job that has a runtime they return true and leave the
\* state unchanged.
C8_InapplicableReturnsTrue ==
    [][\A n \in DOMAIN jobs :
          Inapplicable(n)
          => (/\ last'.ret = "true"
              /\ jobs' = jobs /\ configs' = configs
              /\ executions' = executions /\ inflight' = inflight)]_vars

C8_Witness ==
    /\ last.op = "resume" /\ last.name = "a" /\ last.ret = "true"
    /\ last.was = "idle"

\* C9 as stated: right after a successful register the status is idle for
\* an enabled definition and paused for enabled=false.
C9_DisabledStartsPaused ==
    \A n \in Names :
        (last.op = "register" /\ last.name = n /\ last.ret = "ok")
        => GetJob(n).status = IF configs[n].enabled THEN "idle" ELSE "paused"

\* the reported status of n turns to stopped in this step
BecomesStopped(n) ==
    /\ (n \in DOMAIN configs /\ GetJobStatus(n) = "stopped")'
    /\ ~(n \in DOMAIN configs /\ GetJobStatus(n) = "stopped")

\* C9 amended: right after a successful register the status is idle for an
\* enabled definition and stopped for enabled=false; a status turns to
\* stopped only by stop, by stopAll, or by a register that creates no
\* runtime (enabled=false, or a rejected pattern).
C9_DisabledStartsStopped ==
    [][\A n \in Names :
          /\ (LastIs("register", n) /\ last'.ret = "ok")
             => (GetJob(n).status = IF configs[n].enabled THEN "idle" ELSE "stopped")'
          /\ BecomesStopped(n)
             => \/ last'.op \in {"stop", "stopAll"}
                \/ /\ LastIs("register", n)
                   /\ (~configs'[n].enabled \/ last'.ret = "threw")]_vars

C9_Witness ==
    /\ last.op = "register" /\ last.name = "a" /\ last.ret = "ok"
    /\ ~configs["a"].enabled
    /\ GetJob("a").status = "stopped"

\* C10: while a job is paused only a manual trigger starts a handler of
\* it; pause leaves the invocations in flight alone, only resume clears
\* paused, and an invocation that completes while the job is paused has its
\* record written at the head of the history.
C10_PauseSemantics ==
    [][\A n \in DOMAIN jobs :
          /\ LastIs("pause", n)
             => (n \in DOMAIN jobs' /\ jobs'[n].paused /\ inflight' = inflight)
          /\ (jobs[n].paused /\ Starts(n)) => LastIs("trigger", n)
          /\ (jobs[n].paused /\ n \in DOMAIN jobs' /\ ~jobs'[n].paused)
             => LastIs("resume", n)
          /\ (jobs[n].paused /\ Completes(n))
             => /\ nrec' = nrec + 1
                /\ maxExecutionLogs > 0
                   => /\ executions'[n][1].seq = nrec'
                      /\ executions'[n][1].endTime = now
                      /\ \E i \in DOMAIN inflight[n] :
                            inflight[n][i].startTime = executions'[n][1].startTime]_vars

C10_Witness ==
    /\ "a" \in DOMAIN jobs
    /\ jobs["a"].paused /\ ~jobs["a"].protect
    /\ now = 1 /\ jobs["a"].timerAt = 2 /\ jobs["a"].currentRun = 0
    /\ inflight["a"] = <<>>
    /\ executions["a"] # <<>>
    /\ executions["a"][1].startTime = 0 /\ executions["a"][1].endTime = 1

\* the invocations of job n in flight on a Cron the manager has stopped
Orphans(n) == Cardinality({i \in DOMAIN inflight[n] : ~inflight[n][i].live})

\* C11: an invocation starts only on a Cron the manager holds, never on a
\* stopped one (by schedule or by trigger); stop removes the runtime and
\* leaves the invocations in flight where they are; when such an invocation
\* completes, its record is written at the head of the job's history.
C11_StopSemantics ==
    [][\A n \in Names :
          /\ Starts(n)
             => (n \in DOMAIN jobs /\ n \in DOMAIN jobs' /\ Orphans(n)' = Orphans(n))
          /\ Orphans(n)' > Orphans(n) => last'.op \in {"stop", "stopAll"}
          /\ (LastIs("stop", n) /\ last'.ret = "true")
             => /\ n \notin DOMAIN jobs'
                /\ Len(inflight'[n]) = Len(inflight[n])
                /\ Orphans(n)' = Len(inflight[n])
                /\ executions' = executions
          /\ Orphans(n)' < Orphans(n)
             => /\ nrec' = nrec + 1
                /\ maxExecutionLogs > 0
                   => /\ executions'[n][1].seq = nrec'
                      /\ executions'[n][1].endTime = now
                      /\ \E i \in DOMAIN inflight[n] :
                            /\ ~inflight[n][i].live
                            /\ inflight[n][i].startTime = executions'[n][1].startTime]_vars

C11_Witness ==
    /\ last.op = "settle" /\ last.name = "a"
    /\ "a" \notin DOMAIN jobs
    /\ maxExecutionLogs > 0
    /\ executions["a"] # <<>>
    /\ executions["a"][1].seq = nrec

\* C12 as stated: after stopAll() getAllJobs() is empty, getJob(name) is
\* not-found for every name and getStats().totalJobs is 0.
C12_StopAllClearsRegistry ==
    last.op = "stopAll"
    => /\ DOMAIN GetAllJobs = {}
       /\ \A n \in Names : GetJob(n) = NotFound
       /\ GetStats.totalJobs = 0

\* C12 amended: stopAll() removes every runtime and keeps the definitions
\* and histories: afterwards every job that was registered reports stopped,
\* getAllJobs() holds one snapshot per definition, getJob(name) is not-found
\* only for a name never registered, and getStats() counts every
\* definition, all of them as stopped.
C12_StopAllKeepsRegistry ==
    [][last'.op = "stopAll"
       => /\ jobs' = EmptyMap
          /\ configs' = configs /\ executions' = executions
          /\ (DOMAIN GetAllJobs)' = DOMAIN configs
          /\ \A n \in Names :
                IF n \in DOMAIN configs
                THEN (GetJob(n) # NotFound /\ GetJob(n).status = "stopped")'
                ELSE (GetJob(n) = NotFound)'
          /\ (GetStats.totalJobs = Cardinality(DOMAIN configs))'
          /\ (GetStats.stoppedJobs = GetStats.totalJobs)']_vars

C12_Witness ==
    /\ last.op = "stopAll"
    /\ DOMAIN configs = {"a", "b"}
    /\ inflight["a"] # <<>>
    /\ executions["b"] # <<>>
    /\ GetStats.totalJobs = 2 /\ GetStats.stoppedJobs = 2

\* the newest record of the histories execs, the seq-th written, is the
\* record of a failed run of n that started at startTime
FailureRecorded(execs, seq, n, startTime) ==
    /\ n \in DOMAIN execs
    /\ execs[n] # <<>>
    /\ execs[n][1].jobName = n
    /\ ~execs[n][1].success
    /\ execs[n][1].error # None
    /\ execs[n][1].seq = seq
    /\ execs[n][1].startTime = startTime

\* C13: every handler invocation that raises leaves a record with
\* success=false and an error message in the job's history, whether it was
\* started by the schedule or by trigger and whatever the catch option
\* (histories that keep at least one record).
C13_FailuresRecorded ==
    [][\A n \in Names, i \in 1..MaxRuns :
          (Complete(n, i, FALSE) /\ maxExecutionLogs > 0)
          => FailureRecorded(executions', nrec', n, inflight[n][i].startTime)]_vars

C13_Witness ==
    /\ last.op = "settle" /\ last.name = "a" /\ last.was = "scheduled"
    /\ "a" \in DOMAIN jobs
    /\ ~jobs["a"].catch
    /\ jobs["a"].previousRun = now
    /\ FailureRecorded(executions, nrec, "a", jobs["a"].currentRun)

\* C14 as stated: when a manually triggered handler raises, the promise of
\* the run rejects if the job's catch option is off and resolves if it is on.
C14_FailurePropagatesWithoutCatch ==
    [][\A n \in Names, i \in 1..MaxRuns :
          (/\ Complete(n, i, FALSE)
           /\ maxExecutionLogs > 0
           /\ inflight[n][i].manual /\ inflight[n][i].live)
          => last'.ret = IF jobs[n].catch THEN "resolved" ELSE "rejected"]_vars

\* C14 amended: a handler failure never propagates: trigger of a job with a
\* runtime returns true, and when the handler raises the run's promise
\* resolves whatever the catch option, the failure being recorded.
C14_FailureNeverPropagates ==
    [][\A n \in Names :
          /\ (LastIs("trigger", n) /\ n \in DOMAIN jobs) => last'.ret = "true"
          /\ \A i \in 1..MaxRuns :
                (Complete(n, i, FALSE) /\ maxExecutionLogs > 0)
                => /\ last'.op = "settle" /\ last'.ret = "resolved"
                   /\ FailureRecorded(executions', nrec', n, inflight[n][i].startTime)]_vars

C14_Witness ==
    /\ last.op = "settle" /\ last.name = "a" /\ last.was = "manual"
    /\ last.ret = "resolved"
    /\ "a" \in DOMAIN jobs
    /\ ~jobs["a"].catch
    /\ now = 0
    /\ FailureRecorded(executions, nrec, "a", 0)

\* the retained history of a job
Retained(n) == IF n \in DOMAIN executions THEN executions[n] ELSE <<>>

\* C15: getJob returns not-found for an unknown name; for a known name it
\* returns at most 10 records, the most recent ones of the retained history,
\* most recent first, and stats over the whole retained history: totalRuns is
\* the number of retained records, successfulRuns and failedRuns count the
\* records with success true and false, and they add up to totalRuns.
C15_GetJobSnapshot ==
    \A n \in Names :
       IF n \notin DOMAIN configs
       THEN GetJob(n) = NotFound
       ELSE /\ GetJob(n) # NotFound
            /\ Len(GetJob(n).executions) <= 10
            /\ Len(GetJob(n).executions) =
                    IF Len(Retained(n)) < 10 THEN Len(Retained(n)) ELSE 10
            /\ \A i \in DOMAIN GetJob(n).executions :
                  /\ \E j \in DOMAIN Retained(n) :
                        GetJob(n).executions[i] = Retained(n)[j]
                  /\ \A j \in DOMAIN GetJob(n).executions :
                        i < j => GetJob(n).executions[i].seq >
                                 GetJob(n).executions[j].seq
                  /\ Cardinality({j \in DOMAIN Retained(n) :
                         Retained(n)[j].seq > GetJob(n).executions[i].seq}) = i - 1
            /\ GetJob(n).stats.totalRuns = Len(Retained(n))
            /\ GetJob(n).stats.successfulRuns =
                    Cardinality({j \in DOMAIN Retained(n) : Retained(n)[j].success})
            /\ GetJob(n).stats.failedRuns =
                    Cardinality({j \in DOMAIN Retained(n) : ~Retained(n)[j].success})
            /\ GetJob(n).stats.successfulRuns + GetJob(n).stats.failedRuns =
                    GetJob(n).stats.totalRuns

C15_Witness ==
    /\ last.op = "settle" /\ last.name = "a"
    /\ "a" \in DOMAIN configs
    /\ Len(Retained("a")) = LogCap
    /\ Retained("a")[1].seq = nrec
    /\ ~Retained("a")[LogCap].success
    /\ Len(GetJob("a").executions) = SnapshotLimit
    /\ GetJob("a").stats.totalRuns = LogCap
    /\ GetJob("a").stats.failedRuns > 0
    /\ GetJob("b") = NotFound

\* the sum of stats.totalRuns over the snapshots of the jobs in S
RECURSIVE SumTotalRuns(_, _)
SumTotalRuns(all, S) ==
    IF S = {} THEN 0
    ELSE LET x == CHOOSE y \in S : TRUE
         IN all[x].stats.totalRuns + SumTotalRuns(all, S \ {x})

\* C16: in every reachable state getStats().totalJobs is the number of
\* snapshots of getAllJobs(), runningJobs + pausedJobs + stoppedJobs =
\* totalJobs, totalExecutions is the sum of stats.totalRuns over the
\* snapshots, and successfulExecutions + failedExecutions = totalExecutions.
C16_GetStatsAggregation ==
    /\ GetStats.totalJobs = Cardinality(DOMAIN GetAllJobs)
    /\ GetStats.runningJobs + GetStats.pausedJobs + GetStats.stoppedJobs =
            GetStats.totalJobs
    /\ GetStats.totalExecutions = SumTotalRuns(GetAllJobs, DOMAIN GetAllJobs)
    /\ GetStats.successfulExecutions + GetStats.failedExecutions =
            GetStats.totalExecutions

C16_Witness ==
    /\ GetStats.totalJobs = 2
    /\ GetStats.runningJobs = 1 /\ GetStats.stoppedJobs = 1
    /\ GetStats.totalExecutions = 2
    /\ GetStats.successfulExecutions = 1 /\ GetStats.failedExecutions = 1
    /\ GetJob("a").stats.totalRuns = 1 /\ GetJob("b").stats.totalRuns = 1
    /\ GetJob("a").status = "idle"

\* job n is registered enabled and no handler invocation has started yet
Fresh(n) ==
    /\ n \in DOMAIN jobs
    /\ configs[n].enabled
    /\ Started = 0

\* the one invocation started so far is a manual trigger of job n on its
\* current runtime, and it has not completed
TriggeredOnce(n) ==
    /\ n \in DOMAIN jobs
    /\ configs[n].enabled
    /\ nrec = 0
    /\ \A m \in Names : Len(inflight[m]) = IF m = n THEN 1 ELSE 0
    /\ inflight[n][1].manual /\ inflight[n][1].live

\* what the end-to-end test reads from getJob
OneSuccessfulRun(n) ==
    /\ GetJob(n).previousRun # NoTime
    /\ GetJob(n).stats.totalRuns = 1
    /\ GetJob(n).stats.successfulRuns = 1

\* C17 as stated: after an enabled job is registered and triggered manually
\* once, its handler doing nothing, getJob reports previousRun non-null,
\* stats.totalRuns = 1 and stats.successfulRuns = 1.
C17_AfterOneTrigger ==
    [][\A n \in Names :
          /\ (Fresh(n) /\ LastIs("trigger", n)) => OneSuccessfulRun(n)'
          /\ (TriggeredOnce(n) /\ Complete(n, 1, TRUE)) => OneSuccessfulRun(n)']_vars

\* C17 amended: trigger returns true before the handler has run, getJob then
\* still reporting no previous run and no record; once the invocation has
\* completed previousRun is non-null, and with a history capacity of at
\* least one stats.totalRuns = 1 and stats.successfulRuns = 1.
C17_AfterOneTriggerCompleted ==
    [][\A n \in Names :
          /\ (Fresh(n) /\ LastIs("trigger", n))
             => /\ last'.ret = "true"
                /\ TriggeredOnce(n)'
                /\ GetJob(n)'.previousRun = NoTime
                /\ GetJob(n)'.stats.totalRuns = 0
          /\ (TriggeredOnce(n) /\ Complete(n, 1, TRUE))
             => /\ GetJob(n)'.previousRun # NoTime
                /\ maxExecutionLogs > 0 => OneSuccessfulRun(n)'
                /\ maxExecutionLogs = 0 => GetJob(n)'.stats.totalRuns = 0]_vars

C17_Witness ==
    /\ last.op = "settle" /\ last.name = "a" /\ last.was = "manual"
    /\ nrec = 1
    /\ \A m \in Names : inflight[m] = <<>>
    /\ "a" \in DOMAIN jobs
    /\ OneSuccessfulRun("a")

\* C18: register of a definition whose pattern is malformed throws, whether
\* the definition is enabled or has enabled=false.
C18_InvalidPatternRejected ==
    [][\A c \in Configs :
          (Register(c) /\ ~PatternValid(c.pattern)) => last'.ret = "threw"]_vars

\* C19: a register call that throws (duplicate name or malformed pattern)
\* leaves the three maps as they were; after one that threw on the malformed
\* pattern of a name not known before, getJob returns not-found for the name
\* and getAllJobs and getStats().totalJobs do not count it.
C19_FailedRegistrationAtomic ==
    [][\A c \in Configs :
          (Register(c) /\ last'.ret = "threw")
          => /\ jobs' = jobs /\ configs' = configs /\ executions' = executions
             /\ (~PatternValid(c.pattern) /\ c.name \notin DOMAIN configs)
                => /\ GetJob(c.name)' = NotFound
                   /\ c.name \notin DOMAIN GetAllJobs'
                   /\ GetStats'.totalJobs = GetStats.totalJobs]_vars

\* definition c is registered as register(c) leaves it: c is the stored
\* definition, its history is empty, and if enabled it has a fresh runtime
Intact(c) ==
    /\ c.name \in DOMAIN configs /\ configs[c.name] = c
    /\ c.name \in DOMAIN executions /\ executions[c.name] = <<>>
    /\ c.enabled => (c.name \in DOMAIN jobs /\ jobs[c.name] = NewCron(c, now))

\* C20: when registerAll(list) throws on the k-th definition, every
\* definition before position k, all of which registered successfully, is
\* still registered with its runtime and its history intact.
C20_RegisterAllKeepsEarlier ==
    [][\A list \in ConfigLists :
          (RegisterAll(list) /\ last'.ret = "threw")
          => \A j \in 1..RegisterAllResult(list).done : Intact(list[j])']_vars

\* C21: trigger(name) does not change the job's next scheduled fire: neither
\* the call nor the completion of the invocation it started changes the
\* nextRun that getJob reports or the time the pending timer is due.
C21_TriggerLeavesSchedule ==
    [][\A n \in Names :
          (\/ LastIs("trigger", n)
           \/ \E i \in DOMAIN inflight[n] :
                 inflight[n][i].manual /\ last'.op = "settle" /\ last'.name = n
                 /\ inflight' = [inflight EXCEPT ![n] = RemoveAt(@, i)])
          => /\ now' = now
             /\ (n \in DOMAIN jobs) = (n \in DOMAIN jobs')
             /\ n \in DOMAIN jobs => jobs'[n].timerAt = jobs[n].timerAt
             /\ n \in DOMAIN configs
                => GetJob(n)'.nextRun = GetJob(n).nextRun]_vars

C21_Witness ==
    /\ last.op = "settle" /\ last.name = "a" /\ last.was = "manual"
    /\ "a" \in DOMAIN jobs
    /\ jobs["a"].previousRun = now
    /\ jobs["a"].timerAt = now
    /\ GetJob("a").nextRun = now + 1

\* the definition as getJob reports it
Definition(n) == <<GetJob(n).pattern, GetJob(n).description, GetJob(n).timezone>>

\* C22: getJob reports the pattern, description and timezone supplied at
\* registration: a successful register makes getJob report them, and pause,
\* resume and trigger of any job leave what it reports unchanged.
C22_DefinitionSurvives ==
    [][\A n \in Names :
          /\ (LastIs("register", n) /\ last'.ret = "ok")
             => \A c \in Configs :
                   Register(c)
                   => Definition(n)' = <<c.pattern, c.description, c.timezone>>
          /\ (n \in DOMAIN configs /\ last'.op \in {"pause", "resume", "trigger"})
             => /\ n \in DOMAIN configs'
                /\ configs'[n] = configs[n]
                /\ Definition(n)' =
                      <<configs[n].pattern, configs[n].description, configs[n].timezone>>]_vars

C22_Witness ==
    /\ last = Op("resume", "a", "true")
    /\ "a" \in DOMAIN jobs
    /\ GetJob("a").status = "idle"
    /\ nrec > 0
    /\ Definition("a") = <<GoodPattern, "d2", "Europe/Oslo">>

\* a handler invocation started by the current runtime of job n is in flight
InFlight(n) == \E i \in DOMAIN inflight[n] : inflight[n][i].live

\* C23: for a job with overlap protection on that is neither paused nor
\* stopped, getJob reports status running and isBusy true exactly while a
\* handler invocation of the job is in flight, and idle and isBusy false
\* otherwise.
C23_RunningTracksExecution ==
    \A n \in DOMAIN jobs :
       (jobs[n].protect /\ ~jobs[n].paused)
       => IF InFlight(n)
          THEN GetJob(n).status = "running" /\ GetJob(n).isBusy
          ELSE GetJob(n).status = "idle" /\ ~GetJob(n).isBusy

\* a record without end time and duration
Pending(e) == e.endTime = NoTime /\ e.duration = NoTime

\* C24 as stated: while a handler invocation is in flight, the job's history
\* holds a record of that run with its start time and without end time and
\* duration.
C24_PendingRecordAtStart ==
    \A n \in Names : \A i \in DOMAIN inflight[n] :
       /\ n \in DOMAIN executions
       /\ \E j \in DOMAIN executions[n] :
             /\ executions[n][j].startTime = inflight[n][i].startTime
             /\ Pending(executions[n][j])

\* C24 amended: the start of an invocation writes nothing; histories change
\* only when an invocation completes or a definition is registered; the
\* completion writes one record, final from the start, with the run's start
\* time, its end time and its duration; no record is ever pending.
C24_RecordWrittenAtCompletion ==
    [][/\ \A n \in Names :
            /\ Starts(n) => executions' = executions
            /\ \A i \in DOMAIN inflight[n] :
                  (/\ last'.op = "settle" /\ last'.name = n
                   /\ inflight' = [inflight EXCEPT ![n] = RemoveAt(@, i)]
                   /\ maxExecutionLogs > 0)
                  => /\ executions'[n][1].seq = nrec'
                     /\ executions'[n][1].startTime = inflight[n][i].startTime
                     /\ executions'[n][1].endTime = now
                     /\ executions'[n][1].duration = now - inflight[n][i].startTime
       /\ executions' # executions
          => last'.op \in {"settle", "register", "registerAll"}
       /\ \A n \in DOMAIN executions' : \A j \in DOMAIN executions'[n] :
             ~Pending(executions'[n][j])]_vars

C24_Witness ==
    /\ last.op = "settle" /\ last.name = "a"
    /\ Len(inflight["a"]) = 1
    /\ Len(executions["a"]) = 1
    /\ executions["a"][1].seq = nrec
    /\ executions["a"][1].endTime = now
    /\ executions["a"][1].startTime < inflight["a"][1].startTime

\* an invocation started by a scheduled fire of the current runtime of job n
\* is in flight
ScheduledRun(n) ==
    \E i \in DOMAIN inflight[n] : inflight[n][i].live /\ ~inflight[n][i].manual

\* job n has a runtime that is not paused, its timer is due within the
\* clock's range and one more invocation can start
Scheduled(n) ==
    /\ n \in DOMAIN jobs
    /\ ~jobs[n].paused
    /\ jobs[n].timerAt <= MaxTime
    /\ Started < MaxRuns

\* C25: a registered job that is neither paused nor stopped eventually has
\* its handler invoked by a scheduled fire, unless it is paused or stopped
\* first, or the fire times within the clock's range all fell while an
\* earlier invocation was in flight, or the invocations of the behaviour are
\* used up.
C25_RegisteredJobFires ==
    \A n \in RegNames :
       Scheduled(n)
       ~> \/ ScheduledRun(n)
          \/ n \notin DOMAIN jobs
          \/ jobs[n].paused
          \/ jobs[n].blocking /\ jobs[n].timerAt > MaxTime
          \/ Started >= MaxRuns

C25_Witness ==
    /\ "a" \in DOMAIN jobs
    /\ ~jobs["a"].paused
    /\ nrec = 0
    /\ Len(inflight["a"]) = 1
    /\ ScheduledRun("a")
    /\ jobs["a"].currentRun = now
    /\ now > 0

\* this step ran the rate limiter on a request from ip
Served(ip) ==
    /\ response' # response \/ events' # events \/ last' # last \/ requests' # requests
    /\ ip \in DOMAIN requests'
    /\ ip \notin DOMAIN requests \/ requests'[ip] # requests[ip]

\* ... and the limiter accepted it
Accepted(ip) == Served(ip) /\ response' # "429"

\* ip has a window that has not elapsed
WindowOpen(ip) == ip \in DOMAIN requests /\ now <= requests[ip].resetTime

PassesHTTPS(req) == ~env.REQUIRE_HTTPS \/ req.protocol = "https:"

PassesRateLimit(req) ==
    \/ req.ip \notin DOMAIN requests
    \/ now > requests[req.ip].resetTime
    \/ requests[req.ip].count < env.RATE_LIMIT_MAX

PassesAuth(req) == req.auth = "good"

\* what the chain of the job-control routes does with req in this state
ChainInOrder(req) ==
    LET st == Chain(req, <<"requireHTTPS", "requireRateLimit", "requireAuth">>)
        logged == SubSeq(st.events, Len(events) + 1, Len(st.events))
        types == {logged[i].type : i \in DOMAIN logged}
    IN IF ~PassesHTTPS(req)
       THEN st.response = "403" /\ st.requests = requests
            /\ types = {"HTTPS_REQUIRED"}
       ELSE IF ~PassesRateLimit(req)
       THEN st.response = "429" /\ types = {"RATE_LIMIT_EXCEEDED"}
       ELSE IF ~PassesAuth(req)
       THEN st.response = "401" /\ types \subseteq {"AUTH_FAILURE"}
       ELSE st.response = None /\ types = {"AUTH_SUCCESS"}

\* a step of a job-control route that changed the manager served a request
\* that passed the three checks; a step that answered with a rejection
\* changed nothing of the manager
Gated ==
    /\ (now' = now /\ manager' # manager)
       => /\ response' \in {"200", "404"}
          /\ \E req \in Requests :
                /\ PassesHTTPS(req) /\ PassesRateLimit(req) /\ PassesAuth(req)
                /\ ValidJobName(req.name)
                /\ PostJob(last'.op, req)
    /\ (now' = now /\ response' \in {"403", "429", "401", "400"})
       => UNCHANGED manager

\* C28: a request to the trigger, pause or resume endpoint changes the
\* manager only if it passed requireHTTPS, requireRateLimit and requireAuth;
\* the first check that rejects answers the request (403, 429, 401) and no
\* later check runs (the limiter does not count a request rejected for
\* HTTPS, no authentication is logged for a request the limiter rejected);
\* a rejected request, a malformed job name included, changes no job.
C28_JobControlGated ==
    /\ [](\A req \in Requests : ChainInOrder(req))
    /\ [][Gated]_vars

C28_Witness ==
    /\ Len(events) = 3
    /\ events[1].type = "AUTH_FAILURE"
    /\ events[2].type = "AUTH_SUCCESS"
    /\ events[3].type = "JOB_TRIGGERED"
    /\ response = "200"
    /\ last.op = "trigger"
    /\ inflight["a"] # <<>>

\* this step started a handler invocation of job n from its timer
ScheduledStart(n) ==
    /\ Starts(n)
    /\ ~inflight'[n][Len(inflight'[n])].manual

\* C29: a handler invocation that the schedule starts is started on a job
\* that is neither paused nor stopped at that moment, whatever pause,
\* resume, stop and trigger calls came before the timer expired; an expiry
\* on a paused job only re-arms the timer.
C29_NoFireWhilePausedOrStopped ==
    [][\A n \in Names :
          /\ ScheduledStart(n) => GetJobStatus(n) \notin {"paused", "stopped"}
          /\ (GetJobStatus(n) \in {"paused", "stopped"} /\ ~LastIs("trigger", n))
             => ~Starts(n)]_vars

C29_Witness ==
    /\ "a" \in DOMAIN jobs
    /\ jobs["a"].paused
    /\ last = Internal
    /\ now = 1
    /\ jobs["a"].timerAt = 2
    /\ Started = 0

\* this step is a resume of job n that found it paused
ResumesPaused(n) ==
    /\ LastIs("resume", n)
    /\ last'.ret = "true"
    /\ GetJobStatus(n) = "paused"

\* C30 as stated: after resume of a paused job the job is idle and its
\* next fire time, the one getJob reports and the one its timer is armed
\* for, is later than the resume; a timer expiry on a paused job starts no
\* handler and writes no record.
C30_ResumeLeavesJobIdle ==
    [][\A n \in Names :
          /\ ResumesPaused(n)
             => /\ GetJob(n)'.status = "idle"
                /\ GetJob(n)'.nextRun > now
                /\ jobs'[n].timerAt > now
          /\ (GetJobStatus(n) = "paused" /\ Fires(n))
             => UNCHANGED <<inflight, executions, nrec>>]_vars

\* C30 amended: resume of a paused job clears the pause and nothing else:
\* the job is running if its busy flag is set, as it is while a handler
\* started before or during the pause has not completed, and idle
\* otherwise; the next fire time getJob reports is later than the resume;
\* the resume itself starts no handler and writes no record.  A timer expiry
\* handled while the job is paused starts no handler, writes no record and
\* re-arms the timer for a later time, so it is not replayed; the timer is not
\* re-armed by the resume, and an expiry that is due and not yet handled at
\* the resume runs the handler after it.
C30_ResumeDoesNotReplay ==
    [][\A n \in Names :
          /\ ResumesPaused(n)
             => /\ GetJob(n)'.status = IF jobs[n].blocking THEN "running" ELSE "idle"
                /\ ~InFlight(n) => GetJob(n)'.status = "idle"
                /\ GetJob(n)'.nextRun > now
                /\ jobs'[n] = [jobs[n] EXCEPT !.paused = FALSE]
                /\ jobs[n].timerAt >= now
                /\ UNCHANGED <<inflight, executions, nrec>>
          /\ (GetJobStatus(n) = "paused" /\ Fires(n))
             => /\ UNCHANGED <<inflight, executions, nrec>>
                /\ jobs'[n].timerAt > now
                /\ jobs[n].timerAt <= now]_vars

C30_Witness ==
    /\ last.op = "resume" /\ last.name = "a" /\ last.ret = "true"
    /\ last.was = "paused"
    /\ GetJob("a").status = "idle"
    /\ now = 1
    /\ jobs["a"].timerAt = 2
    /\ inflight["a"] = <<>>
    /\ nrec = 1
    /\ Len(executions["a"]) = 1
    /\ executions["a"][1].startTime = 0

WellFormed(e, n) ==
    /\ e.success => e.error = None
    /\ ~e.success => e.error # None
    /\ e.endTime # NoTime
    /\ e.endTime >= e.startTime
    /\ e.duration = e.endTime - e.startTime
    /\ e.jobName = n

\* C32: every record of every history has success true and no error
\* message, or success false and an error message; its end time is not
\* earlier than its start time, its duration is end time minus start time,
\* and it names the job whose history holds it.
C32_RecordsWellFormed ==
    \A n \in DOMAIN executions : \A i \in DOMAIN executions[n] :
       WellFormed(executions[n][i], n)

C32_Witness ==
    \E n \in DOMAIN executions : \E i, j \in DOMAIN executions[n] :
       /\ executions[n][i].success /\ executions[n][i].duration = 1
       /\ ~executions[n][j].success /\ executions[n][j].error = "message"

\* history new is history old with the record of invocation inv, which
\* completed at t, put in front and the result cut to the cap
OneRecordAdded(new, old, inv, t) ==
    /\ Len(new) = IF Len(old) < maxExecutionLogs THEN Len(old) + 1
                  ELSE maxExecutionLogs
    /\ \A k \in 2..Len(new) : new[k] = old[k - 1]
    /\ Len(new) > 0
       => /\ new[1].startTime = inv.startTime
          /\ new[1].endTime = t
          /\ new[1].seq = nrec + 1

\* C33: the completion of a handler invocation, by return or by throw,
\* puts exactly one record, that of the invocation, in front of the job's
\* history (and cuts the history to the cap), so the length of a history
\* below the cap grows by one; nothing but a completion adds a record, and a
\* register of the name starts its history empty, so a history below the
\* cap is as long as the number of completions since then.
C33_OneRecordPerInvocation ==
    [][\A n \in Names :
          /\ Completes(n)
             => \E i \in DOMAIN inflight[n] :
                   /\ inflight'[n] = RemoveAt(inflight[n], i)
                   /\ OneRecordAdded(executions'[n], executions[n],
                                     inflight[n][i], now)
          /\ (~Completes(n) /\ n \in DOMAIN executions /\ last'.op # "register")
             => executions'[n] = executions[n]
          /\ (~Completes(n) /\ n \in DOMAIN executions')
             => (executions'[n] = <<>>
                 \/ (n \in DOMAIN executions /\ executions'[n] = executions[n]))]_vars

\* a throw and a return, each with its one record
C33_Witness ==
    /\ nrec = 2
    /\ last.op = "settle"
    /\ "a" \in DOMAIN executions
    /\ Len(executions["a"]) = 2
    /\ ~executions["a"][1].success
    /\ executions["a"][2].success
    /\ inflight["a"] = <<>>

\* C34: a handler invocation that was started before a stop of its job and
\* completes after the name has been registered again (the name has a new
\* runtime) adds no record to the history of the new registration.
C34_HistoryOfOneRegistration ==
    [][\A n \in Names : \A i \in DOMAIN inflight[n] :
          (/\ inflight'[n] = RemoveAt(inflight[n], i)
           /\ ~inflight[n][i].live
           /\ n \in DOMAIN jobs)
          => executions'[n] = executions[n]]_vars

ControlOps == {"trigger", "pause", "resume", "stop"}

\* C35: a stop that returns true leaves the name without a runtime; while
\* a name has no runtime, trigger, pause, resume and stop of it return false
\* and give it none; only a register of the name gives it a runtime again.
C35_StoppedIsTerminal ==
    [][\A n \in Names :
          /\ (LastIs("stop", n) /\ last'.ret = "true") => n \notin DOMAIN jobs'
          /\ (n \notin DOMAIN jobs /\ \E op \in ControlOps : LastIs(op, n))
             => last'.ret = "false" /\ n \notin DOMAIN jobs'
          /\ (n \notin DOMAIN jobs /\ n \in DOMAIN jobs')
             => last'.op = "register" /\ last'.name = n]_vars

\* a control operation on a job that had a runtime and has none any more
C35_Witness ==
    /\ last.op \in ControlOps /\ last.name = "a"
    /\ last.ret = "false"
    /\ last.was = "stopped"
    /\ "a" \in DOMAIN configs
    /\ \E i \in DOMAIN inflight["a"] : ~inflight["a"][i].live

\* this step is a control operation on job n, or starts or completes a
\* handler invocation of job n
StepOf(n) ==
    \/ \E op \in ControlOps : LastIs(op, n)
    \/ Starts(n)
    \/ Completes(n)

\* nothing of job n changes in this step: its definition, its runtime (the
\* time its timer is armed for included), its history, its invocations, and
\* what getJob reports of it
Untouched(n) ==
    /\ (n \in DOMAIN jobs) = (n \in DOMAIN jobs')
    /\ n \in DOMAIN jobs => jobs'[n] = jobs[n]
    /\ configs'[n] = configs[n]
    /\ executions'[n] = executions[n]
    /\ inflight'[n] = inflight[n]
    /\ GetJob(n)' = GetJob(n)

\* C36: pause, resume, trigger and stop of a job, and the start and the
\* completion of a handler of it, leave every other job's definition,
\* status, timer, history and invocations unchanged; and an expiry of a
\* job's timer starts its handler when the job itself is neither paused nor
\* busy under protection, whatever handlers of other jobs are running.
C36_JobsIndependent ==
    [][\A A \in Names : \A B \in Names \ {A} :
          /\ StepOf(A) => Untouched(B)
          /\ (Fires(B) /\ ShouldFire(jobs[B])) => ScheduledStart(B)]_vars

\* a scheduled run of job b started while a handler of job a, started
\* earlier, is still running
C36_Witness ==
    /\ \E i \in DOMAIN inflight["a"] :
          inflight["a"][i].live /\ inflight["a"][i].startTime = 0
    /\ \E j \in DOMAIN inflight["b"] :
          ~inflight["b"][j].manual /\ inflight["b"][j].startTime = 1
    /\ jobs["a"].paused

QueryOps == {"getJob", "getAllJobs", "getStats"}

\* C37: a call of getJob, getAllJobs or getStats changes nothing of the
\* manager, so the same call made again at once returns the same result;
\* getAllJobs returns the snapshot of every name that has a definition, one
\* for each, and no other.
C37_QueriesReadOnly ==
    [][last'.op \in QueryOps
       => /\ UNCHANGED <<maxExecutionLogs, jobs, configs, executions, inflight,
                         now, nrec, web>>
          /\ \A n \in Names : LastIs("getJob", n) => last'.ret = GetJob(n)'
          /\ last'.op = "getStats" => last'.ret = GetStats'
          /\ last'.op = "getAllJobs"
             => /\ last'.ret = GetAllJobs'
                /\ DOMAIN last'.ret = DOMAIN configs
                /\ \A n \in DOMAIN configs : last'.ret[n].name = n]_vars

\* getJob called on a job that has a record and a handler running
C37_Witness ==
    /\ last.op = "getJob" /\ last.name = "a"
    /\ "a" \in DOMAIN configs
    /\ last.ret = GetJob("a")
    /\ GetJob("a").status = "running"
    /\ GetJob("a").stats.totalRuns = 1

\* the maps as the first k register calls of registerAll(list) leave them
RECURSIVE RegisterFirst(_, _, _)
RegisterFirst(st, list, k) ==
    IF k = 0 THEN st
    ELSE RegisterFirst(RegisterResult(st, Head(list)), Tail(list), k - 1)

\* the maps before a call of registerAll
Before == [jobs |-> jobs, configs |-> configs, executions |-> executions,
           threw |-> FALSE, done |-> 0]

\* C38 as stated: when registerAll(list) throws on the k-th definition,
\* getJob returns not-found afterwards (the name has no definition) for
\* every definition after position k; r is what the call makes of the maps.
C38_LaterDefinitionsNotFound ==
    \A list \in ConfigLists : \A r \in {RegisterAllResult(list)} :
       r.threw
       => \A j \in r.done + 2..Len(list) : list[j].name \notin DOMAIN r.configs

\* C38 amended: when registerAll(list) throws on the k-th definition, the
\* manager is left as the first k register calls leave it, the k-th being
\* the one that threw: no definition after position k is looked at, and
\* getJob returns not-found for the name of such a definition unless the
\* name had a definition before the call or is the name of one of the
\* first k definitions.
C38_RegisterAllStopsAtFailure ==
    \A list \in ConfigLists : \A r \in {RegisterAllResult(list)} :
       r.threw
       => \A st \in {RegisterFirst(Before, list, r.done + 1)} :
             /\ r.done + 1 <= Len(list)
             /\ st.threw /\ st.done = r.done
             /\ r.jobs = st.jobs
             /\ r.configs = st.configs
             /\ r.executions = st.executions
             /\ \A j \in r.done + 2..Len(list) :
                   (/\ list[j].name \notin DOMAIN configs
                    /\ \A i \in 1..r.done + 1 : list[i].name # list[j].name)
                   => list[j].name \notin DOMAIN r.configs

\* registerAll threw on a malformed definition of a, and b, which no call
\* has registered, has no definition
C38_Witness ==
    /\ last.op = "registerAll" /\ last.ret = "threw"
    /\ "a" \in DOMAIN configs
    /\ configs["a"].pattern = BadPattern
    /\ GetJob("b") = NotFound

\* log new is log old after d more events were logged: the d events are at
\* its end, the events of old before them in their order, and as many of the
\* oldest are gone as the log would otherwise hold more than maxEvents
LoggedOnto(new, old, d) ==
    LET dropped == IF Len(old) + d > AuditMaxEvents
                   THEN Len(old) + d - AuditMaxEvents ELSE 0
    IN /\ Len(new) = Len(old) + d - dropped
       /\ SubSeq(new, 1, Len(new) - d) = SubSeq(old, dropped + 1, Len(old))
       /\ \A i \in Len(new) - d + 1..Len(new) : new[i].ip \in Ips

\* how many events the request of this step logs, as far as its response
\* tells: one for a rejection by HTTPS or by the rate limit and for an
\* authenticated request for an unknown job, two for an authenticated
\* request with a malformed name or one that changed the manager, at most
\* one for a rejection by authentication
LogsEvents(d) ==
    /\ response' \in {"403", "429", "404"} => d = 1
    /\ response' = "400" => d = 2
    /\ manager' # manager => d = 2
    /\ response' = "401" => d <= 1

\* C39: the audit log never holds more than 1000 events; a request adds the
\* events it logs at the end, in the order it logs them, and for each event
\* logged onto a log of 1000 exactly the oldest event is dropped.
C39_AuditLogBounded ==
    /\ [](Len(events) <= AuditMaxEvents)
    /\ [][\E d \in 0..2 : LogsEvents(d) /\ LoggedOnto(events', events, d)]_vars

\* a trigger request logged two events onto a full log, and the two oldest
\* events are gone
C39_Witness ==
    /\ Len(events) = AuditMaxEvents
    /\ events[1].details = "3"
    /\ events[AuditMaxEvents - 1].type = "AUTH_SUCCESS"
    /\ events[AuditMaxEvents].type = "JOB_TRIGGERED"

\* the last k events of a log, in logging order
LastEvents(evs, k) == SubSeq(evs, Len(evs) - k + 1, Len(evs))

\* C40: getRecentEvents(limit) returns the last min(limit, number of held
\* events) events of the log in logging order, for every limit >= 0; for
\* limit 0 it returns none.
C40_RecentEventsAreTheLast ==
    last.op = "getRecentEvents" =>
        /\ last.was >= 0
        /\ last.ret = LastEvents(events, IF last.was < Len(events) THEN last.was ELSE Len(events))

====
